---- MODULE Spec2Model ----
(***************************************************************************)
(* automap: maps whose index key is derived from the stored entity.        *)
(*                                                                         *)
(* src/lib.rs    the split/join maps AutoHashMap<T> and AutoBTreeMap<T>,   *)
(*               both produced by the macro implementation!, wrapping      *)
(*               HashMap<T::Key, T::Value> and BTreeMap<T::Key, T::Value>. *)
(* src/hash.rs,  the key-accessor maps, wrapping HashMap<T::Key, T> and    *)
(* src/btree.rs  BTreeMap<T::Key, T>.                                      *)
(* src/tests.rs  the entity type Person { name, age } with its split/join. *)
(*                                                                         *)
(* Names are ordered values; they are written 1..NumKeys (1 is "Bob",      *)
(* 2 is "Ruth", in the order String's Ord gives them).  A HashMap is the   *)
(* set of its (key, value) entries, a BTreeMap the sequence of its entries *)
(* in storage order.  Option<X> is a sequence of length at most one.       *)
(***************************************************************************)
EXTENDS Integers, Sequences, FiniteSets, TLC

NumKeys == 2
MaxAge == 2

Keys == 1..NumKeys
Ages == 0..MaxAge

\* struct Person { name: String, age: u16 }
Person == [name : Keys, age : Ages]

\* Option
None == <<>>
Some(x) == <<x>>

\* impl AutoMapped for Person
split(t) == <<t.name, t.age>>

\* join that drops the key it is given
join_default_name(pair) == [name |-> 1, age |-> pair[2]]

join(pair) == [name |-> pair[1], age |-> pair[2]]

\* fn key(&self) -> &Self::Key { &self.name }
key(t) == t.name

-----------------------------------------------------------------------------
(* std::collections::HashMap<K, V>, as the set of its entries <<k, v>>.    *)

HashMap_new == {}

HashMap_keys(m) == {e[1] : e \in m}

HashMap_contains_key(m, k) == k \in HashMap_keys(m)

HashMap_get(m, k) ==
    IF HashMap_contains_key(m, k)
      THEN Some((CHOOSE e \in m : e[1] = k)[2])
      ELSE None

\* insert(k, v): the entry under k is replaced and its old value returned
HashMap_insert(m, k, v) ==
    [map |-> {e \in m : e[1] # k} \cup {<<k, v>>},
     ret |-> HashMap_get(m, k)]

HashMap_remove(m, k) ==
    [map |-> {e \in m : e[1] # k},
     ret |-> HashMap_get(m, k)]

HashMap_len(m) == Cardinality(m)

\* the orders in which into_iter may yield the entries (unspecified order)
HashMap_into_iter(m) ==
    {s \in [1..Cardinality(m) -> m] : {s[i] : i \in 1..Cardinality(m)} = m}

-----------------------------------------------------------------------------
(* std::collections::BTreeMap<K, V>, as the sequence of its entries in     *)
(* storage order.                                                          *)

BTreeMap_new == <<>>

BTreeMap_find(s, k) == {i \in 1..Len(s) : s[i][1] = k}

BTreeMap_contains_key(s, k) == BTreeMap_find(s, k) # {}

BTreeMap_get(s, k) ==
    IF BTreeMap_contains_key(s, k)
      THEN Some(s[CHOOSE i \in BTreeMap_find(s, k) : TRUE][2])
      ELSE None

\* insert(k, v): replaces in place, or places the entry after the smaller keys
BTreeMap_insert(s, k, v) ==
    IF BTreeMap_contains_key(s, k)
      THEN LET i == CHOOSE j \in BTreeMap_find(s, k) : TRUE
           IN  [map |-> [s EXCEPT ![i] = <<s[i][1], v>>],
                ret |-> Some(s[i][2])]
      ELSE LET n == Cardinality({j \in 1..Len(s) : s[j][1] < k})
           IN  [map |-> SubSeq(s, 1, n) \o <<<<k, v>>>> \o SubSeq(s, n + 1, Len(s)),
                ret |-> None]

BTreeMap_remove(s, k) ==
    IF BTreeMap_contains_key(s, k)
      THEN LET i == CHOOSE j \in BTreeMap_find(s, k) : TRUE
           IN  [map |-> SubSeq(s, 1, i - 1) \o SubSeq(s, i + 1, Len(s)),
                ret |-> Some(s[i][2])]
      ELSE [map |-> s, ret |-> None]

BTreeMap_len(s) == Len(s)

BTreeMap_into_iter(s) == s

BTreeMap_entries(s) == {s[i] : i \in 1..Len(s)}

-----------------------------------------------------------------------------
(* src/lib.rs: implementation!(AutoHashMap, HashMap, ...).  The tuple      *)
(* struct $outer(inner) is the 1-tuple <<inner>>; self.0 is self[1].       *)

\* .map(|val| T::join((k, val.to_owned())))
map_join(opt, k) ==
    IF opt = None THEN None ELSE Some(join(<<k, opt[1]>>))

AutoHashMap_new == <<HashMap_new>>

\* insert that returns the value it has just stored
AutoHashMap_insert_returns_new(self, t) ==
    LET kv == split(t)
        r  == HashMap_insert(self[1], kv[1], kv[2])
    IN  [self |-> <<r.map>>, ret |-> Some(kv[2])]

AutoHashMap_insert(self, t) ==
    LET kv == split(t)
        r  == HashMap_insert(self[1], kv[1], kv[2])
    IN  [self |-> <<r.map>>, ret |-> r.ret]

\* insert_cloned that joins the key with the new value v, not the old val
AutoHashMap_insert_cloned_returns_t(self, t) ==
    LET kv == split(t)
        r  == HashMap_insert(self[1], kv[1], kv[2])
    IN  [self |-> <<r.map>>,
         ret |-> IF r.ret = None THEN None ELSE Some(join(<<kv[1], kv[2]>>))]

AutoHashMap_insert_cloned(self, t) ==
    LET kv == split(t)
        r  == HashMap_insert(self[1], kv[1], kv[2])
    IN  [self |-> <<r.map>>, ret |-> map_join(r.ret, kv[1])]

AutoHashMap_remove_cloned(self, k) ==
    LET r == HashMap_remove(self[1], k)
    IN  [self |-> <<r.map>>, ret |-> map_join(r.ret, k)]

\* get_cloned that joins a default payload when the key is absent
AutoHashMap_get_cloned_or_default(self, k) ==
    IF HashMap_get(self[1], k) = None
      THEN Some(join(<<k, 0>>))
      ELSE map_join(HashMap_get(self[1], k), k)

AutoHashMap_get_cloned(self, k) ==
    map_join(HashMap_get(self[1], k), k)

\* Shrinkwrap (mutable): Deref / DerefMut to the inner map
AutoHashMap_get(self, k) == HashMap_get(self[1], k)

AutoHashMap_remove(self, k) ==
    LET r == HashMap_remove(self[1], k)
    IN  [self |-> <<r.map>>, ret |-> r.ret]

AutoHashMap_len(self) == HashMap_len(self[1])

\* derive_more::Into, derive_more::From
AutoHashMap_into(self) == self[1]

\* From that builds a default map
AutoHashMap_from_default(inner) == <<HashMap_new>>

AutoHashMap_from(inner) == <<inner>>

AutoHashMap_into_iter(self) == HashMap_into_iter(self[1])

-----------------------------------------------------------------------------
(* src/lib.rs: implementation!(AutoBTreeMap, BTreeMap, ...).               *)

AutoBTreeMap_new == <<BTreeMap_new>>

\* insert that keeps the entry already stored (entry(k).or_insert(v))
AutoBTreeMap_insert_if_absent(self, t) ==
    LET kv == split(t)
        r  == BTreeMap_insert(self[1], kv[1], kv[2])
    IN  [self |-> IF r.ret = None THEN <<r.map>> ELSE self, ret |-> r.ret]

AutoBTreeMap_insert(self, t) ==
    LET kv == split(t)
        r  == BTreeMap_insert(self[1], kv[1], kv[2])
    IN  [self |-> <<r.map>>, ret |-> r.ret]

\* insert_cloned that keeps the entry already stored
AutoBTreeMap_insert_cloned_keep_old(self, t) ==
    LET kv == split(t)
        r  == BTreeMap_insert(self[1], kv[1], kv[2])
    IN  [self |-> IF r.ret = None THEN <<r.map>> ELSE self,
         ret |-> map_join(r.ret, kv[1])]

AutoBTreeMap_insert_cloned(self, t) ==
    LET kv == split(t)
        r  == BTreeMap_insert(self[1], kv[1], kv[2])
    IN  [self |-> <<r.map>>, ret |-> map_join(r.ret, kv[1])]

\* remove_cloned that looks the key up and does not remove it
AutoBTreeMap_remove_cloned_peek(self, k) ==
    [self |-> self, ret |-> map_join(BTreeMap_get(self[1], k), k)]

AutoBTreeMap_remove_cloned(self, k) ==
    LET r == BTreeMap_remove(self[1], k)
    IN  [self |-> <<r.map>>, ret |-> map_join(r.ret, k)]

\* get_cloned that joins the key with the first stored payload
AutoBTreeMap_get_cloned_first(self, k) ==
    IF BTreeMap_contains_key(self[1], k)
      THEN Some(join(<<k, self[1][1][2]>>))
      ELSE None

AutoBTreeMap_get_cloned(self, k) ==
    map_join(BTreeMap_get(self[1], k), k)

AutoBTreeMap_get(self, k) == BTreeMap_get(self[1], k)

AutoBTreeMap_remove(self, k) ==
    LET r == BTreeMap_remove(self[1], k)
    IN  [self |-> <<r.map>>, ret |-> r.ret]

AutoBTreeMap_len(self) == BTreeMap_len(self[1])

AutoBTreeMap_into(self) == self[1]

AutoBTreeMap_from(inner) == <<inner>>

AutoBTreeMap_into_iter(self) == BTreeMap_into_iter(self[1])

-----------------------------------------------------------------------------
(* src/hash.rs and src/btree.rs: the key-accessor maps, which store the    *)
(* whole entity under val.key().clone().  Shrinkwrap (mutable) hands out   *)
(* the inner map, so its own insert, get_mut, remove and clear are offered *)
(* too.                                                                    *)

\* *m.get_mut(&k).unwrap() = v, for a key that is present
HashMap_get_mut(m, k, v) ==
    IF HashMap_contains_key(m, k)
      THEN {e \in m : e[1] # k} \cup {<<k, v>>}
      ELSE m

HashMap_clear(m) == {}

BTreeMap_get_mut(s, k, v) ==
    IF BTreeMap_contains_key(s, k)
      THEN [i \in 1..Len(s) |-> IF s[i][1] = k THEN <<k, v>> ELSE s[i]]
      ELSE s

BTreeMap_clear(s) == <<>>

hash_AutoHashMap_new == <<HashMap_new>>

\* insert that stores every value under one fixed key
hash_AutoHashMap_insert_fixed_key(self, val) ==
    LET r == HashMap_insert(self[1], 1, val)
    IN  [self |-> <<r.map>>, ret |-> r.ret]

hash_AutoHashMap_insert(self, val) ==
    LET r == HashMap_insert(self[1], key(val), val)
    IN  [self |-> <<r.map>>, ret |-> r.ret]

btree_AutoBTreeMap_new == <<BTreeMap_new>>

btree_AutoBTreeMap_insert(self, val) ==
    LET r == BTreeMap_insert(self[1], key(val), val)
    IN  [self |-> <<r.map>>, ret |-> r.ret]

-----------------------------------------------------------------------------
(* State.  One AutoHashMap<Person> and one AutoBTreeMap<Person> are driven *)
(* with the same calls, as the two tests of src/tests.rs do.               *)

VARIABLES
    hashmap,    \* the AutoHashMap<Person>
    btreemap,   \* the AutoBTreeMap<Person>
    live,       \* FALSE once into_iter(self) has consumed the maps
    last,       \* the last call: its name, arguments and the two results
    hist,       \* per key, the last insertion or removal that targeted it
    keyed_hash,   \* the AutoHashMap<Person> of src/hash.rs
    keyed_btree,  \* the AutoBTreeMap<Person> of src/btree.rs
    keyed_last,   \* the last call on the key-accessor maps
    raw_used      \* whether the inner map's insert or get_mut has been called

lib_vars == <<hashmap, btreemap, live, last, hist>>

keyed_vars == <<keyed_hash, keyed_btree, keyed_last, raw_used>>

vars == <<hashmap, btreemap, live, last, hist,
          keyed_hash, keyed_btree, keyed_last, raw_used>>

AnyPerson == [name |-> 1, age |-> 0]

Call(op, t, k, rh, rb) == [op |-> op, t |-> t, k |-> k, ret_h |-> rh, ret_b |-> rb]

NoHist == [k \in Keys |-> <<"none">>]

new ==
    /\ hashmap' = AutoHashMap_new
    /\ btreemap' = AutoBTreeMap_new
    /\ live' = TRUE
    /\ last' = Call("new", AnyPerson, 1, None, None)
    /\ hist' = NoHist
    /\ UNCHANGED keyed_vars

Init ==
    /\ hashmap = AutoHashMap_new
    /\ btreemap = AutoBTreeMap_new
    /\ live = TRUE
    /\ last = Call("new", AnyPerson, 1, None, None)
    /\ hist = NoHist
    /\ keyed_hash = hash_AutoHashMap_new
    /\ keyed_btree = btree_AutoBTreeMap_new
    /\ keyed_last = [op |-> "new", k |-> 1]
    /\ raw_used = FALSE

insert(t) ==
    LET h == AutoHashMap_insert(hashmap, t)
        b == AutoBTreeMap_insert(btreemap, t)
    IN  /\ live
        /\ hashmap' = h.self
        /\ btreemap' = b.self
        /\ last' = Call("insert", t, split(t)[1], h.ret, b.ret)
        /\ hist' = [hist EXCEPT ![split(t)[1]] = <<"ins", split(t)[2]>>]
        /\ UNCHANGED <<live, keyed_vars>>

insert_cloned(t) ==
    LET h == AutoHashMap_insert_cloned(hashmap, t)
        b == AutoBTreeMap_insert_cloned(btreemap, t)
    IN  /\ live
        /\ hashmap' = h.self
        /\ btreemap' = b.self
        /\ last' = Call("insert_cloned", t, split(t)[1], h.ret, b.ret)
        /\ hist' = [hist EXCEPT ![split(t)[1]] = <<"ins", split(t)[2]>>]
        /\ UNCHANGED <<live, keyed_vars>>

remove_cloned(k) ==
    LET h == AutoHashMap_remove_cloned(hashmap, k)
        b == AutoBTreeMap_remove_cloned(btreemap, k)
    IN  /\ live
        /\ hashmap' = h.self
        /\ btreemap' = b.self
        /\ last' = Call("remove_cloned", AnyPerson, k, h.ret, b.ret)
        /\ hist' = [hist EXCEPT ![k] = <<"rem">>]
        /\ UNCHANGED <<live, keyed_vars>>

get_cloned(k) ==
    /\ live
    /\ last' = Call("get_cloned", AnyPerson, k,
                    AutoHashMap_get_cloned(hashmap, k),
                    AutoBTreeMap_get_cloned(btreemap, k))
    /\ UNCHANGED <<hashmap, btreemap, live, hist, keyed_vars>>

get(k) ==
    /\ live
    /\ last' = Call("get", AnyPerson, k,
                    AutoHashMap_get(hashmap, k),
                    AutoBTreeMap_get(btreemap, k))
    /\ UNCHANGED <<hashmap, btreemap, live, hist, keyed_vars>>

remove(k) ==
    LET h == AutoHashMap_remove(hashmap, k)
        b == AutoBTreeMap_remove(btreemap, k)
    IN  /\ live
        /\ hashmap' = h.self
        /\ btreemap' = b.self
        /\ last' = Call("remove", AnyPerson, k, h.ret, b.ret)
        /\ hist' = [hist EXCEPT ![k] = <<"rem">>]
        /\ UNCHANGED <<live, keyed_vars>>

len ==
    /\ live
    /\ last' = Call("len", AnyPerson, 1,
                    AutoHashMap_len(hashmap), AutoBTreeMap_len(btreemap))
    /\ UNCHANGED <<hashmap, btreemap, live, hist, keyed_vars>>

\* let inner: HashMap<_, _> = map.into(); let map: AutoHashMap<_> = inner.into();
into_from ==
    /\ live
    /\ hashmap' = AutoHashMap_from(AutoHashMap_into(hashmap))
    /\ btreemap' = AutoBTreeMap_from(AutoBTreeMap_into(btreemap))
    /\ last' = Call("into_from", AnyPerson, 1, None, None)
    /\ UNCHANGED <<live, hist, keyed_vars>>

\* into_iter(self) consumes the map
into_iter ==
    /\ live
    /\ \E s \in AutoHashMap_into_iter(hashmap) :
          last' = Call("into_iter", AnyPerson, 1, s, AutoBTreeMap_into_iter(btreemap))
    /\ hashmap' = AutoHashMap_new
    /\ btreemap' = AutoBTreeMap_new
    /\ live' = FALSE
    /\ hist' = NoHist
    /\ UNCHANGED keyed_vars

Next ==
    \/ new
    \/ \E t \in Person : insert(t)
    \/ \E t \in Person : insert_cloned(t)
    \/ \E k \in Keys : remove_cloned(k)
    \/ \E k \in Keys : get_cloned(k)
    \/ \E k \in Keys : get(k)
    \/ \E k \in Keys : remove(k)
    \/ len
    \/ into_from
    \/ into_iter

Spec == Init /\ [][Next]_vars

-----------------------------------------------------------------------------
(* The key-accessor maps, driven with the same calls.                      *)

keyed_insert(val) ==
    /\ keyed_hash' = hash_AutoHashMap_insert(keyed_hash, val).self
    /\ keyed_btree' = btree_AutoBTreeMap_insert(keyed_btree, val).self
    /\ keyed_last' = [op |-> "insert", k |-> key(val)]
    /\ UNCHANGED <<raw_used, lib_vars>>

\* map.insert(k, v) on the inner map
keyed_raw_insert(k, v) ==
    /\ keyed_hash' = <<HashMap_insert(keyed_hash[1], k, v).map>>
    /\ keyed_btree' = <<BTreeMap_insert(keyed_btree[1], k, v).map>>
    /\ keyed_last' = [op |-> "raw_insert", k |-> k]
    /\ raw_used' = TRUE
    /\ UNCHANGED lib_vars

\* a write through map.get_mut(&k)
keyed_get_mut(k, v) ==
    /\ HashMap_contains_key(keyed_hash[1], k)
    /\ keyed_hash' = <<HashMap_get_mut(keyed_hash[1], k, v)>>
    /\ keyed_btree' = <<BTreeMap_get_mut(keyed_btree[1], k, v)>>
    /\ keyed_last' = [op |-> "get_mut", k |-> k]
    /\ raw_used' = TRUE
    /\ UNCHANGED lib_vars

keyed_remove(k) ==
    /\ keyed_hash' = <<HashMap_remove(keyed_hash[1], k).map>>
    /\ keyed_btree' = <<BTreeMap_remove(keyed_btree[1], k).map>>
    /\ keyed_last' = [op |-> "remove", k |-> k]
    /\ UNCHANGED <<raw_used, lib_vars>>

keyed_clear ==
    /\ keyed_hash' = <<HashMap_clear(keyed_hash[1])>>
    /\ keyed_btree' = <<BTreeMap_clear(keyed_btree[1])>>
    /\ keyed_last' = [op |-> "clear", k |-> 1]
    /\ UNCHANGED <<raw_used, lib_vars>>

NextKeyed ==
    \/ \E val \in Person : keyed_insert(val)
    \/ \E k \in Keys : \E v \in Person : keyed_raw_insert(k, v)
    \/ \E k \in Keys : \E v \in Person : keyed_get_mut(k, v)
    \/ \E k \in Keys : keyed_remove(k)
    \/ keyed_clear

SpecKeyed == Init /\ [][NextKeyed]_vars

-----------------------------------------------------------------------------
(* Properties of the split/join maps.                                      *)

HashEntries == hashmap[1]

BTreeEntries == BTreeMap_entries(btreemap[1])

HashEntriesNext == hashmap'[1]

BTreeEntriesNext == BTreeMap_entries(btreemap'[1])

KeysOf(entries) == {e[1] : e \in entries}

Except(entries, k) == {e \in entries : e[1] # k}

Under(entries, k) == {e \in entries : e[1] = k}

ReplaceEffect(before, after, oldlen, newlen, n, ret, k) ==
    IF k \in KeysOf(before)
      THEN /\ \E e \in Under(before, k) : ret = Some(e[2])
           /\ n = 1
           /\ Cardinality(Under(after, k)) = 1
           /\ newlen = oldlen
           /\ Except(after, k) = Except(before, k)
      ELSE /\ ret = None
           /\ newlen = oldlen + 1

AbsenceSemantics ==
    [][last'.op \in {"get_cloned", "get", "remove", "remove_cloned"} =>
        /\ last'.k \notin KeysOf(HashEntries) =>
              /\ last'.ret_h = None
              /\ hashmap' = hashmap
        /\ last'.k \notin KeysOf(BTreeEntries) =>
              /\ last'.ret_b = None
              /\ btreemap' = btreemap]_vars

AbsenceSemanticsWitness ==
    /\ last.op = "remove_cloned"
    /\ last.ret_h = None
    /\ last.ret_b = None
    /\ Cardinality(HashEntries) = 1
    /\ hist[last.k] = <<"rem">>

\* C4: later insertion wins.  A key is present iff the most recent insertion
\* or removal that targeted it was an insertion; the payload looked up under
\* it is that insertion's payload; len() is the number of distinct keys
\* present.
LaterInsertionWins ==
    /\ \A k \in Keys :
          /\ HashMap_contains_key(hashmap[1], k) <=> hist[k][1] = "ins"
          /\ BTreeMap_contains_key(btreemap[1], k) <=> hist[k][1] = "ins"
          /\ hist[k][1] = "ins" =>
                /\ AutoHashMap_get(hashmap, k) = Some(hist[k][2])
                /\ AutoBTreeMap_get(btreemap, k) = Some(hist[k][2])
    /\ AutoHashMap_len(hashmap) = Cardinality(KeysOf(HashEntries))
    /\ AutoBTreeMap_len(btreemap) = Cardinality(KeysOf(BTreeEntries))

\* Bob/0, Ruth/1, then Bob/2: size 2 and Bob -> 2
LaterInsertionWinsWitness ==
    /\ last.op = "insert"
    /\ last.t = [name |-> 1, age |-> 2]
    /\ last.ret_h = Some(0)
    /\ HashEntries = {<<1, 2>>, <<2, 1>>}
    /\ btreemap[1] = <<<<1, 2>>, <<2, 1>>>>
    /\ AutoHashMap_len(hashmap) = 2

\* C5: get_cloned.  For a key k present with payload v, get_cloned(k) returns
\* Some(join((k, v))) and leaves the map as it was; directly after insert(t)
\* or insert_cloned(t), get_cloned of t's key returns Some(t).
GetClonedReconstructs ==
    [][last'.op = "get_cloned" =>
        /\ \A e \in Under(HashEntries, last'.k) : last'.ret_h = Some(join(e))
        /\ \A e \in Under(BTreeEntries, last'.k) : last'.ret_b = Some(join(e))
        /\ hashmap' = hashmap
        /\ btreemap' = btreemap
        /\ (last.op \in {"insert", "insert_cloned"} /\ last'.k = split(last.t)[1]) =>
              /\ last'.ret_h = Some(last.t)
              /\ last'.ret_b = Some(last.t)]_vars

GetClonedReconstructsWitness ==
    /\ last.op = "get_cloned"
    /\ last.ret_h = Some([name |-> 2, age |-> 1])
    /\ last.ret_b = Some([name |-> 2, age |-> 1])
    /\ Cardinality(HashEntries) = 2

\* What remove_cloned(k) must have done when k was present.
RemoveEffect(before, after, oldlen, newlen, ret, k) ==
    \A e \in Under(before, k) :
        /\ ret = Some(join(e))
        /\ k \notin KeysOf(after)
        /\ newlen = oldlen - 1
        /\ Except(after, k) = Except(before, k)

\* C6: remove_cloned.  For a key k present with payload v, remove_cloned(k)
\* returns Some(join((k, v))); afterwards k is absent, len() is one less and
\* every other entry is as it was; a second remove_cloned(k) directly
\* afterwards returns None.
RemoveClonedRemoves ==
    [][last'.op = "remove_cloned" =>
        /\ RemoveEffect(HashEntries, HashEntriesNext,
                        AutoHashMap_len(hashmap), AutoHashMap_len(hashmap'),
                        last'.ret_h, last'.k)
        /\ RemoveEffect(BTreeEntries, BTreeEntriesNext,
                        AutoBTreeMap_len(btreemap), AutoBTreeMap_len(btreemap'),
                        last'.ret_b, last'.k)
        /\ (last.op = "remove_cloned" /\ last.k = last'.k) =>
              /\ last'.ret_h = None
              /\ last'.ret_b = None]_vars

RemoveClonedRemovesWitness ==
    /\ last.op = "remove_cloned"
    /\ last.ret_h = Some([name |-> 1, age |-> 2])
    /\ last.ret_b = Some([name |-> 1, age |-> 2])
    /\ HashEntries = {<<2, 0>>}
    /\ btreemap[1] = <<<<2, 0>>>>

\* C7: insert_cloned.  When t's key k is present with payload p,
\* insert_cloned(t) returns Some(join((k, p))), the entity that was stored and
\* not t itself, and otherwise None; the map afterwards is the one insert(t)
\* produces: k bound to t's payload, every other entry as it was.
InsertClonedDisplaced ==
    [][last'.op = "insert_cloned" =>
        LET t == last'.t
            k == split(t)[1]
        IN  /\ \A e \in Under(HashEntries, k) : last'.ret_h = Some(join(e))
            /\ \A e \in Under(BTreeEntries, k) : last'.ret_b = Some(join(e))
            /\ k \notin KeysOf(HashEntries) => last'.ret_h = None
            /\ k \notin KeysOf(BTreeEntries) => last'.ret_b = None
            /\ hashmap' = AutoHashMap_insert(hashmap, t).self
            /\ btreemap' = AutoBTreeMap_insert(btreemap, t).self
            /\ Under(HashEntriesNext, k) = {split(t)}
            /\ Under(BTreeEntriesNext, k) = {split(t)}
            /\ Except(HashEntriesNext, k) = Except(HashEntries, k)
            /\ Except(BTreeEntriesNext, k) = Except(BTreeEntries, k)]_vars

\* the displaced entity differs from t
InsertClonedDisplacedWitness ==
    /\ last.op = "insert_cloned"
    /\ last.ret_h = Some([name |-> 2, age |-> 0])
    /\ last.ret_b = Some([name |-> 2, age |-> 0])
    /\ last.t = [name |-> 2, age |-> 1]
    /\ Cardinality(HashEntries) = 2

\* the calls whose results the two backends must agree on
Compared == {"new", "insert", "insert_cloned", "get_cloned", "get", "remove",
             "remove_cloned", "len", "into_from"}

\* C8: backend equivalence.  Driven with the same calls, the AutoBTreeMap and
\* the AutoHashMap return the same results at every step and hold the same
\* (key, payload) pairs; the AutoBTreeMap yields its keys in strictly ascending
\* order.
BackendEquivalence ==
    /\ last.op \in Compared => last.ret_h = last.ret_b
    /\ HashEntries = BTreeEntries
    /\ \A i, j \in 1..Len(btreemap[1]) :
          i < j => btreemap[1][i][1] < btreemap[1][j][1]
    /\ last.op = "into_iter" =>
          \A i, j \in 1..Len(last.ret_b) :
              i < j => last.ret_b[i][1] < last.ret_b[j][1]

\* Ruth was inserted before Bob; iteration gives Bob, Ruth
BackendEquivalenceWitness ==
    /\ last.op = "insert"
    /\ last.t.name = 1
    /\ last.ret_b = None
    /\ hist[2][1] = "ins"
    /\ Len(btreemap[1]) = 2
    /\ btreemap[1][1][1] = 1
    /\ btreemap[1][2][1] = 2

\* C9: conversion fidelity.  Converting a map into its raw backend container
\* and back yields an equal map: the same keys, the same payload under every
\* key, the same len(); into_iter() yields exactly the map's (key, payload)
\* pairs, each key once.
ConversionFidelity ==
    [][/\ last'.op = "into_from" =>
             /\ hashmap' = hashmap
             /\ btreemap' = btreemap
             /\ HashEntriesNext = HashEntries
             /\ BTreeEntriesNext = BTreeEntries
             /\ AutoHashMap_len(hashmap') = AutoHashMap_len(hashmap)
             /\ AutoBTreeMap_len(btreemap') = AutoBTreeMap_len(btreemap)
       /\ last'.op = "into_iter" =>
             /\ {last'.ret_h[i] : i \in 1..Len(last'.ret_h)} = HashEntries
             /\ {last'.ret_b[i] : i \in 1..Len(last'.ret_b)} = BTreeEntries
             /\ Len(last'.ret_h) = Cardinality(KeysOf(HashEntries))
             /\ Len(last'.ret_b) = Cardinality(KeysOf(BTreeEntries))]_vars

\* into_iter on a converted map of two entries, the hash order not ascending
ConversionFidelityWitness ==
    /\ last.op = "into_iter"
    /\ Len(last.ret_h) = 2
    /\ last.ret_h[1][1] = 2
    /\ Len(last.ret_b) = 2
    /\ ~live

KeyedEntries == keyed_hash[1] \cup BTreeMap_entries(keyed_btree[1])

\* C10, as stated: in the key-accessor maps every resident entry (k, v)
\* satisfies v.key() = k in every state reachable by the adapter's insert and
\* the inner map's insert, get_mut, remove and clear.
KeyedKeySynchronized ==
    \A e \in KeyedEntries : key(e[2]) = e[1]

\* C10, amended: every resident entry (k, v) satisfies v.key() = k in every
\* state reached by the adapter's insert and the inner map's remove and clear
\* alone, that is as long as the inner map's insert and get_mut were not used.
KeyedKeySynchronizedByAdapter ==
    ~raw_used => \A e \in KeyedEntries : key(e[2]) = e[1]

KeyedKeySynchronizedWitness ==
    /\ ~raw_used
    /\ keyed_last.op = "insert"
    /\ Cardinality(keyed_hash[1]) = 2
    /\ Len(keyed_btree[1]) = 2
    /\ \E e \in keyed_hash[1] : e[2].age = 2

====
